---- MODULE Spec2Model ----
(***************************************************************************)
(* A model of main.py of ImageToHeader: the run-length codec, the escape   *)
(* resolver, the alpha transform, the packaging loop of main() with its    *)
(* raw-file fallback, and the header writer / reader.                      *)
(*                                                                         *)
(* Buffers (bytearray) are sequences of 0..255, indexed from 1: the        *)
(* Python index k is the position k + 1 here.  Text (str) is a sequence of *)
(* one-character strings.                                                  *)
(***************************************************************************)
EXTENDS Integers, Sequences, FiniteSets

VARIABLES
    pc,              \* position of the run: which call or loop comes next
    data,            \* codec runs: the caller's buffer
    arg,             \* codec runs: the buffer the last call was given
    res,             \* what the last call returned or raised; in main(), the exception that ended it
    ALPHA_ONLY,      \* main.py:1, the module-level mode flag
    assets_exist,    \* whether the assets directory is there
    assets,          \* the entries of the assets directory, as os.listdir gives them
    todo,            \* main(): the entries the packaging loop has still to visit
    image_data_map,  \* main(): the dict of records, in insertion order
    original_size,   \* main(): running total of the decoded sizes
    bytes_saved,     \* main(): running total of the savings
    header,          \* the text generate_header returned
    written,         \* main(): the files the reconstruction loop wrote
    extracted        \* what extract_image_data returned or raised

vars == <<pc, data, arg, res, ALPHA_ONLY, assets_exist, assets, todo, image_data_map,
          original_size, bytes_saved, header, written, extracted>>

\* ------------------------------------------------------------ bounds

\* Longest buffer of the exhaustive family of codec inputs.
MaxLen == 4
\* How far past the run cap the long-run inputs go.
MaxOver == 2
\* Most pixels of an RGBA buffer of the codec inputs.
MaxRGBA == 2

\* The byte values the exhaustive inputs are built from: the escape marker,
\* its substitute, the extremes and one ordinary value.
Bytes == {0, 1, 2, 5, 255}

\* ------------------------------------------------------------ helpers

Min(a, b) == IF a < b THEN a ELSE b

\* [v] * n
Rep(v, n) == [k \in 1..n |-> v]

RECURSIVE SeqsUpTo(_, _)
SeqsUpTo(S, n) ==
    IF n = 0 THEN {<<>>}
    ELSE LET shorter == SeqsUpTo(S, n - 1)
         IN  shorter \cup {Append(s, b) : s \in {t \in shorter : Len(t) = n - 1}, b \in S}

\* What a call hands back: a value, or the exception it raised.
Returned(v) == [raised |-> "none", value |-> v]
Raised(e) == [raised |-> e, value |-> <<>>]

\* ---------------------------------------------------- fix_data_for_rle

\* bytearray.find(v, start): the first position >= start holding v, 0 for
\* Python's -1.
Find(buf, v, start) ==
    LET hits == {k \in start..Len(buf) : buf[k] = v}
    IN  IF hits = {} THEN 0 ELSE CHOOSE k \in hits : \A j \in hits : k <= j

\* The while loop of lines 141-143.
RECURSIVE fix_loop(_, _)
fix_loop(copy, i) ==
    IF i = 0 THEN copy
    ELSE LET c == [copy EXCEPT ![i] = 1]
         IN  fix_loop(c, Find(c, 2, i + 1))

\* A resolver that rewrites the first escape value only (an if for the while).
fix_first_only(d) ==
    LET i == Find(d, 2, 1)
    IN  [copy |-> IF i = 0 THEN d ELSE [d EXCEPT ![i] = 1], data |-> d]

\* fix_data_for_rle(data): copy is the buffer returned, data the caller's
\* buffer after the call (a bytearray is mutable; the code copies it first).
fix_data_for_rle(d) ==
    LET copy == d
    IN  [copy |-> fix_loop(copy, Find(copy, 2, 1)), data |-> d]

\* -------------------------------------------------------- rle_compress

\* Line 157's cap on a run.
RunCap == 255

\* The inner while of lines 158-159, by its result: count grows from 1 while
\* count < max_count and data[i] == data[i + count], so it stops at the first
\* count that reaches max_count or meets a different byte.
count_run(d, i, max_count) ==
    CHOOSE count \in 1..max_count :
        /\ \A k \in 1..(count - 1) : d[i] = d[i + k]
        /\ count = max_count \/ d[i] # d[i + count]

\* An emitter that forgets the second literal of a pair.
emit_drop_second(d, i, count) ==
    IF count > 2 THEN <<2, count, d[i]>> ELSE <<d[i]>>

\* An emitter whose run threshold is one too low.
emit_low_threshold(d, i, count) ==
    IF count > 1 THEN <<2, count, d[i]>> ELSE <<d[i]>>

\* Lines 160-165: what one step appends to compressed_data.
emit(d, i, count) ==
    IF count > 2 THEN <<2, count, d[i]>>
    ELSE IF count = 2 THEN <<d[i], d[i + 1]>>
    ELSE <<d[i]>>

\* The outer while of lines 155-166.
RECURSIVE compress_loop(_, _, _)
compress_loop(d, i, compressed_data) ==
    IF i > Len(d) THEN compressed_data
    ELSE LET max_count == Min(RunCap, Len(d) - i + 1)
             count == count_run(d, i, max_count)
         IN  compress_loop(d, i + count, compressed_data \o emit(d, i, count))

rle_compress(d) == compress_loop(d, 1, <<>>)

\* ------------------------------------------------------ rle_decompress

\* The while of lines 175-183.  Indexing a bytearray past its end raises
\* IndexError, at line 177 or at line 178.
RECURSIVE decompress_loop(_, _, _)
decompress_loop(c, i, decompressed_data) ==
    IF i > Len(c) THEN Returned(decompressed_data)
    ELSE IF c[i] = 2
         THEN IF i + 1 > Len(c) \/ i + 2 > Len(c) THEN Raised("IndexError")
              ELSE decompress_loop(c, i + 3, decompressed_data \o Rep(c[i + 2], c[i + 1]))
         ELSE decompress_loop(c, i + 1, Append(decompressed_data, c[i]))

\* A decoder that takes an escape with no room for its operands as a literal.
RECURSIVE lenient_loop(_, _, _)
lenient_loop(c, i, decompressed_data) ==
    IF i > Len(c) THEN Returned(decompressed_data)
    ELSE IF c[i] = 2 /\ i + 2 <= Len(c)
         THEN lenient_loop(c, i + 3, decompressed_data \o Rep(c[i + 2], c[i + 1]))
         ELSE lenient_loop(c, i + 1, Append(decompressed_data, c[i]))

rle_decompress_lenient(c) == lenient_loop(c, 1, <<>>)

rle_decompress(c) == decompress_loop(c, 1, <<>>)

\* ----------------------------------------------------- alpha transform

\* A projection that starts at offset 0 instead of 3.
get_first_channel(image_data) ==
    [k \in 1..((Len(image_data) + 3) \div 4) |-> image_data[4 * k - 3]]

\* image_data[3::4]
get_alpha_values(image_data) ==
    [k \in 1..(Len(image_data) \div 4) |-> image_data[4 * k]]

\* The for loop of lines 226-227: four bytes per alpha value, the first three
\* 255 and the fourth the value.
alpha_vals_to_image_data(alpha_values) ==
    [k \in 1..(4 * Len(alpha_values)) |->
        IF k % 4 = 0 THEN alpha_values[k \div 4] ELSE 255]

\* ------------------------------------------------------------- text

\* The characters of the decimal digits, by value.
DigitChars == <<"0", "1", "2", "3", "4", "5", "6", "7", "8", "9">>

IsDigit(ch) == \E v \in 1..10 : DigitChars[v] = ch

DigitValue(ch) == (CHOOSE v \in 1..10 : DigitChars[v] = ch) - 1

\* str(n) of an int n >= 0: its decimal digits, most significant first.
RECURSIVE str(_)
str(n) ==
    IF n < 10 THEN <<DigitChars[n + 1]>>
    ELSE str(n \div 10) \o <<DigitChars[(n % 10) + 1]>>

\* "true" if b else "false"
bool_text(b) == IF b THEN <<"t", "r", "u", "e">> ELSE <<"f", "a", "l", "s", "e">>

\* ','.join(map(str, image_data))
RECURSIVE join_bytes(_)
join_bytes(image_data) ==
    IF image_data = <<>> THEN <<>>
    ELSE IF Len(image_data) = 1 THEN str(image_data[1])
    ELSE str(image_data[1]) \o <<",">> \o join_bytes(Tail(image_data))

\* text.split(sep) for a one-character sep: the pieces between the separators,
\* an empty text giving one empty piece.
split(text, sep) ==
    LET cuts == {k \in 1..Len(text) : text[k] = sep}
        bounds == {0} \cup cuts \cup {Len(text) + 1}
        NextCut(b) == CHOOSE c \in bounds : c > b /\ \A e \in bounds : e > b => c <= e
        starts == {0} \cup cuts
        Nth(n) == CHOOSE b \in starts : Cardinality({e \in starts : e < b}) = n - 1
    IN  [n \in 1..Cardinality(starts) |-> SubSeq(text, Nth(n) + 1, NextCut(Nth(n)) - 1)]

\* str.strip() of spaces, as int() does before it reads the digits.
strip(text) ==
    LET inked == {k \in 1..Len(text) : text[k] # " "}
    IN  IF inked = {} THEN <<>>
        ELSE SubSeq(text, CHOOSE k \in inked : \A j \in inked : k <= j,
                          CHOOSE k \in inked : \A j \in inked : j <= k)

RECURSIVE digits_value(_)
digits_value(digits) ==
    IF digits = <<>> THEN 0
    ELSE 10 * digits_value(SubSeq(digits, 1, Len(digits) - 1)) + DigitValue(digits[Len(digits)])

\* int(text) of a text of digits with spaces around it; ValueError on an empty or
\* a non-digit text.  (No text of a header carries a sign or an underscore.)
int(text) ==
    LET t == strip(text)
    IN  IF t = <<>> \/ \E k \in 1..Len(t) : ~IsDigit(t[k]) THEN Raised("ValueError")
        ELSE Returned(digits_value(t))

\* bool(text): a str is true unless it is empty.
bool(text) == text # <<>>

\* text.endswith(suffix)
endswith(text, suffix) ==
    /\ Len(text) >= Len(suffix)
    /\ SubSeq(text, Len(text) - Len(suffix) + 1, Len(text)) = suffix

\* ---------------------------------------------------- generate_header

\* Lines 61-73: the text before the records.
HeaderPreamble ==
    <<
      "#", "p", "r", "a", "g", "m", "a", " ", "o", "n", "c", "e", "\n", "\n",
      "#", "i", "n", "c", "l", "u", "d", "e", " ", "<", "m", "a", "p", ">",
      "\n", "#", "i", "n", "c", "l", "u", "d", "e", " ", "<", "s", "t", "r",
      "i", "n", "g", ">", "\n", "\n", "s", "t", "r", "u", "c", "t", " ", "I",
      "m", "a", "g", "e", "D", "a", "t", "a", " ", "{", "\n", " ", " ", " ",
      " ", "u", "n", "s", "i", "g", "n", "e", "d", " ", "c", "h", "a", "r",
      "*", " ", "d", "a", "t", "a", ";", "\n", " ", " ", " ", " ", "u", "n",
      "s", "i", "g", "n", "e", "d", " ", "i", "n", "t", " ", "s", "i", "z",
      "e", ";", "\n", " ", " ", " ", " ", "u", "n", "s", "i", "g", "n", "e",
      "d", " ", "i", "n", "t", " ", "w", "i", "d", "t", "h", ";", "\n", " ",
      " ", " ", " ", "u", "n", "s", "i", "g", "n", "e", "d", " ", "i", "n",
      "t", " ", "h", "e", "i", "g", "h", "t", ";", "\n", " ", " ", " ", " ",
      "u", "n", "s", "i", "g", "n", "e", "d", " ", "i", "n", "t", " ", "o",
      "r", "i", "g", "i", "n", "a", "l", "S", "i", "z", "e", ";", "\n", " ",
      " ", " ", " ", "b", "o", "o", "l", " ", "i", "s", "R", "a", "w", "P",
      "n", "g", ";", "\n", " ", " ", " ", " ", "b", "o", "o", "l", " ", "a",
      "l", "p", "h", "a", "O", "n", "l", "y", ";", "\n", "}", ";", "\n", "\n",
      "s", "t", "d", ":", ":", "m", "a", "p", "<", "s", "t", "d", ":", ":",
      "s", "t", "r", "i", "n", "g", ",", " ", "I", "m", "a", "g", "e", "D",
      "a", "t", "a", ">", " ", "i", "m", "a", "g", "e", "M", "a", "p", " ",
      "=", " ", "{", "\n"
    >>

\* Line 78, the pieces of the f-string between its fields.
LineOpen == <<"{", " ", "\"">>
LineNew == <<"\"", ",", " ", "{", " ", "n", "e", "w", " ", "u", "n", "s", "i", "g", "n", "e", "d", " ", "c", "h", "a", "r", "[">>
LineData == <<"]", " ", "{", " ">>
LineDataEnd == <<" ", "}", ",", " ">>
LineComma == <<",", " ">>
LineEnd == <<" ", "}", " ", "}", ",", "\n">>

\* Line 78: the line of one record.
record_line(file_name, rec) ==
    LineOpen \o file_name \o LineNew \o str(Len(rec.image_data)) \o LineData
    \o join_bytes(rec.image_data) \o LineDataEnd \o str(Len(rec.image_data))
    \o LineComma \o str(rec.width) \o LineComma \o str(rec.height)
    \o LineComma \o str(rec.decompressed_size) \o LineComma \o bool_text(rec.is_raw_png)
    \o LineComma \o bool_text(rec.alpha_only) \o LineEnd

\* The for loop of lines 75-78 over image_data_map.items().
RECURSIVE record_lines(_)
record_lines(map) ==
    IF map = <<>> THEN <<>>
    ELSE record_line(Head(map).file_name, Head(map)) \o record_lines(Tail(map))

generate_header(map) == HeaderPreamble \o record_lines(map) \o <<"}", ";">>

\* ------------------------------------------------- extract_image_data

\* The pieces of a regular expression: a literal text, a lazy group (.*?) and a
\* greedy group of digits (\d+).
Lit(text) == [t |-> "lit", s |-> text]
LazyGroup == [t |-> "lazy", s |-> <<>>]
DigitsGroup == [t |-> "digits", s |-> <<>>]

\* Line 94: the pattern of a record's line.
pattern ==
    << Lit(<<"\"">>), LazyGroup,
       Lit(<<"\"", ",", " ", "{", " ", "n", "e", "w", " ", "u", "n", "s", "i", "g", "n", "e", "d", " ", "c", "h", "a", "r", "[">>), DigitsGroup,
       Lit(<<"]", " ", "{">>), LazyGroup,
       Lit(<<"}", ",", " ">>), DigitsGroup,
       Lit(<<",", " ">>), DigitsGroup,
       Lit(<<",", " ">>), DigitsGroup,
       Lit(<<",", " ">>), DigitsGroup,
       Lit(<<",", " ">>), LazyGroup,
       Lit(<<" ", "}">>) >>

NoMatch == [ok |-> FALSE, groups |-> <<>>]

\* The text s stands in line at position pos.
has_at(line, pos, s) ==
    /\ pos + Len(s) - 1 <= Len(line)
    /\ SubSeq(line, pos, pos + Len(s) - 1) = s

\* The position after the digits that start at pos.
digits_end(line, pos) ==
    CHOOSE e \in pos..(Len(line) + 1) :
        /\ \A k \in pos..(e - 1) : IsDigit(line[k])
        /\ e = Len(line) + 1 \/ ~IsDigit(line[e])

\* The match of the pieces k.. of pat in line from pos on, as a backtracking
\* matcher finds it: a lazy group takes the shortest text (no newline is in a line)
\* after which the rest matches, a digits group the longest.
RECURSIVE match_at(_, _, _, _)
match_at(line, pos, pat, k) ==
    IF k > Len(pat) THEN [ok |-> TRUE, groups |-> <<>>]
    ELSE IF pat[k].t = "lit"
         THEN IF has_at(line, pos, pat[k].s)
              THEN match_at(line, pos + Len(pat[k].s), pat, k + 1)
              ELSE NoMatch
    ELSE LET ends == IF pat[k].t = "lazy" THEN pos..(Len(line) + 1)
                     ELSE (pos + 1)..digits_end(line, pos)
             rest == [e \in ends |-> match_at(line, e, pat, k + 1)]
             good == {e \in ends : rest[e].ok}
             end == IF pat[k].t = "lazy" THEN CHOOSE e \in good : \A f \in good : e <= f
                    ELSE CHOOSE e \in good : \A f \in good : f <= e
         IN  IF good = {} THEN NoMatch
             ELSE [ok |-> TRUE,
                   groups |-> <<SubSeq(line, pos, end - 1)>> \o rest[end].groups]

\* re.search(pat, line): the match at the leftmost position that has one.
search(pat, line) ==
    LET tries == [p \in 1..(Len(line) + 1) |-> match_at(line, p, pat, 1)]
        starts == {p \in 1..(Len(line) + 1) : tries[p].ok}
    IN  IF starts = {} THEN NoMatch
        ELSE tries[CHOOSE p \in starts : \A q \in starts : p <= q]

\* bytearray(map(int, text.split(','))): ValueError when a piece is no number or
\* no byte.
parse_bytes(text) ==
    LET pieces == split(text, ",")
        values == [k \in 1..Len(pieces) |-> int(pieces[k])]
    IN  IF \E k \in 1..Len(pieces) : values[k].raised # "none" \/ values[k].value > 255
        THEN Raised("ValueError")
        ELSE Returned([k \in 1..Len(pieces) |-> values[k].value])

\* d[key] = value on a dict kept as the sequence of its items: a new key goes to
\* the end, a key already there keeps its place.
dict_set(d, value) ==
    IF \E k \in 1..Len(d) : d[k].file_name = value.file_name
    THEN [k \in 1..Len(d) |-> IF d[k].file_name = value.file_name THEN value ELSE d[k]]
    ELSE Append(d, value)

\* Lines 96-105: the record read from a match m.
match_record(m, image_data) ==
    [file_name |-> m.groups[1],
     image_data |-> image_data,
     length |-> int(m.groups[2]).value,
     width |-> int(m.groups[4]).value,
     height |-> int(m.groups[5]).value,
     original_size |-> int(m.groups[6]).value,
     is_raw_png |-> bool(m.groups[7]),
     alpha_only |-> bool(m.groups[8])]

\* The while loop of lines 91-107.
RECURSIVE extract_loop(_, _, _)
extract_loop(lines, i, extracted_image_data_map) ==
    IF i > Len(lines) THEN Returned(extracted_image_data_map)
    ELSE LET m == search(pattern, lines[i])
         IN  IF ~m.ok THEN extract_loop(lines, i + 1, extracted_image_data_map)
             ELSE LET image_data == parse_bytes(m.groups[3])
                  IN  IF image_data.raised # "none" THEN image_data
                      ELSE extract_loop(lines, i + 1,
                               dict_set(extracted_image_data_map,
                                        match_record(m, image_data.value)))

\* Line 90: the Python index of the first line read.
FirstLine == 14

extract_image_data(text) == extract_loop(split(text, "\n"), FirstLine + 1, <<>>)

\* ------------------------------------------------------------- main

\* A fallback that also takes the raw file when the two lengths are equal.
choose_payload_on_tie(raw_png_data, image_data, alpha_only) ==
    IF Len(raw_png_data) <= Len(image_data)
    THEN [image_data |-> raw_png_data, is_raw_png |-> TRUE, alpha_only |-> FALSE]
    ELSE [image_data |-> image_data, is_raw_png |-> FALSE, alpha_only |-> alpha_only]

\* A fallback that leaves alpha_only as it was (line 271 missing).
choose_payload_keep_alpha(raw_png_data, image_data, alpha_only) ==
    IF Len(raw_png_data) < Len(image_data)
    THEN [image_data |-> raw_png_data, is_raw_png |-> TRUE, alpha_only |-> alpha_only]
    ELSE [image_data |-> image_data, is_raw_png |-> FALSE, alpha_only |-> alpha_only]

\* Lines 264-271: the payload kept and the two flags, given the raw file, the
\* compressed buffer and the mode flag.
choose_payload(raw_png_data, image_data, alpha_only) ==
    IF Len(raw_png_data) < Len(image_data)
    THEN [image_data |-> raw_png_data, is_raw_png |-> TRUE, alpha_only |-> FALSE]
    ELSE [image_data |-> image_data, is_raw_png |-> FALSE, alpha_only |-> alpha_only]

\* A packaging that takes decompressed_size from the decoded buffer (orig_size).
package_image_orig_size(image, raw_png_data, alpha_mode) ==
    LET orig_size == Len(image.image_data)
        working == IF alpha_mode THEN get_alpha_values(image.image_data)
                   ELSE image.image_data
        compressed == rle_compress(fix_data_for_rle(working).copy)
        chosen == choose_payload(raw_png_data, compressed, alpha_mode)
    IN  [image_data |-> chosen.image_data,
         width |-> image.width,
         height |-> image.height,
         decompressed_size |-> orig_size,
         is_raw_png |-> chosen.is_raw_png,
         alpha_only |-> chosen.alpha_only,
         orig_size |-> orig_size,
         saved |-> orig_size - Len(chosen.image_data)]

\* Lines 252-278 for one decoded image: the record stored under the file's name,
\* with orig_size and saved, the two numbers the totals take.
package_image(image, raw_png_data, alpha_mode) ==
    LET orig_size == Len(image.image_data)
        working == IF alpha_mode THEN get_alpha_values(image.image_data)
                   ELSE image.image_data
        adjusted_image_data == fix_data_for_rle(working).copy
        decompressed_size == Len(adjusted_image_data)
        compressed == rle_compress(adjusted_image_data)
        chosen == choose_payload(raw_png_data, compressed, alpha_mode)
    IN  [image_data |-> chosen.image_data,
         width |-> image.width,
         height |-> image.height,
         decompressed_size |-> decompressed_size,
         is_raw_png |-> chosen.is_raw_png,
         alpha_only |-> chosen.alpha_only,
         orig_size |-> orig_size,
         saved |-> orig_size - Len(chosen.image_data)]

\* The value main() stores in image_data_map, with its key.
map_item(file_name, p) ==
    [file_name |-> file_name,
     image_data |-> p.image_data,
     width |-> p.width,
     height |-> p.height,
     decompressed_size |-> p.decompressed_size,
     is_raw_png |-> p.is_raw_png,
     alpha_only |-> p.alpha_only]

\* Lines 297-308 for one record that is not a raw file: the buffer handed to
\* Image.frombytes, or the exception raised before it.
reconstruct(rec, alpha_mode) ==
    LET decompressed == rle_decompress(rec.image_data)
        image_data == IF alpha_mode THEN alpha_vals_to_image_data(decompressed.value)
                      ELSE decompressed.value
        expected_length == rec.width * rec.height * 4
    IN  IF decompressed.raised # "none" THEN decompressed
        ELSE IF Len(image_data) # expected_length THEN Raised("ValueError")
        ELSE Returned(image_data)

\* ------------------------------------------------- runs of the codec

codecVars == <<data, arg, res>>

A_PNG == <<"a", ".", "p", "n", "g">>
B_PNG == <<"b", "u", "g", ".", "p", "n", "g">>
NOTES_TXT == <<"n", "o", "t", "e", "s", ".", "t", "x", "t">>


\* Every buffer over Bytes of at most MaxLen bytes.
ShortInputs == SeqsUpTo(Bytes, MaxLen)

\* Runs around the cap and around twice the cap, alone and between other bytes.
LongInputs ==
    {pre \o Rep(v, n) \o suf :
        v \in {1, 5},
        n \in ((RunCap - 1)..(RunCap + MaxOver)) \cup ((2 * RunCap - 1)..(2 * RunCap + MaxOver)),
        pre \in {<<>>, <<0>>},
        suf \in {<<>>, <<0, 0, 0>>}}

\* The pixels of the RGBA inputs: white, near-white and black, at three alphas.
Pixels ==
    {rgb \o <<a>> : rgb \in {<<255, 255, 255>>, <<255, 2, 255>>, <<0, 0, 0>>}, a \in {0, 2, 255}}

RECURSIVE Flatten(_)
Flatten(pixels) == IF pixels = <<>> THEN <<>> ELSE Head(pixels) \o Flatten(Tail(pixels))

RGBAInputs == {Flatten(ps) : ps \in SeqsUpTo(Pixels, MaxRGBA)}

CodecInputs == ShortInputs \cup LongInputs \cup RGBAInputs

\* What the variables of main() and of the header functions hold before use.
MainIdle ==
    /\ ALPHA_ONLY = TRUE
    /\ assets_exist = FALSE
    /\ assets = <<>>
    /\ todo = <<>>
    /\ image_data_map = <<>>
    /\ original_size = 0
    /\ bytes_saved = 0
    /\ header = <<>>
    /\ written = <<>>
    /\ extracted = Returned(<<>>)

mainVars == <<ALPHA_ONLY, assets_exist, assets, todo, image_data_map, original_size,
              bytes_saved, header, written, extracted>>

InitCodec ==
    /\ pc = "codec"
    /\ data \in CodecInputs
    /\ arg = <<>>
    /\ res = Returned(<<>>)
    /\ MainIdle

\* fix_data_for_rle(data)
CallFix ==
    /\ pc = "codec"
    /\ LET r == fix_data_for_rle(data)
       IN  /\ res' = Returned(r.copy)
           /\ data' = r.data
    /\ arg' = data
    /\ pc' = "fixed"
    /\ UNCHANGED mainVars

\* rle_compress(data)
CallCompress ==
    /\ pc = "codec"
    /\ res' = Returned(rle_compress(data))
    /\ arg' = data
    /\ pc' = "compressed"
    /\ UNCHANGED <<data, mainVars>>

\* rle_decompress(rle_compress(data)): the second call, on the first's result
CallDecompress ==
    /\ pc = "compressed"
    /\ res' = rle_decompress(res.value)
    /\ arg' = res.value
    /\ pc' = "roundtrip"
    /\ UNCHANGED <<data, mainVars>>

\* rle_decompress(data), the buffer taken as a compressed stream (the long
\* runs are inputs of the compressor only)
CallDecode ==
    /\ pc = "codec"
    /\ data \notin LongInputs
    /\ res' = rle_decompress(data)
    /\ arg' = data
    /\ pc' = "decoded"
    /\ UNCHANGED <<data, mainVars>>

\* get_alpha_values(data)
CallGetAlpha ==
    /\ pc = "codec"
    /\ res' = Returned(get_alpha_values(data))
    /\ arg' = data
    /\ pc' = "alpha"
    /\ UNCHANGED <<data, mainVars>>

\* alpha_vals_to_image_data(get_alpha_values(data))
CallExpand ==
    /\ pc = "alpha"
    /\ res' = Returned(alpha_vals_to_image_data(res.value))
    /\ arg' = res.value
    /\ pc' = "expanded"
    /\ UNCHANGED <<data, mainVars>>

NextCodec ==
    \/ CallFix
    \/ CallCompress
    \/ CallDecompress
    \/ CallDecode
    \/ CallGetAlpha
    \/ CallExpand

SpecCodec == InitCodec /\ [][NextCodec]_vars

\* ------------------------------------------------ claims on the codec

Has(buf, v) == \E k \in 1..Len(buf) : buf[k] = v

\* C1: for every byte sequence x with no byte equal to 2,
\* rle_decompress(rle_compress(x)) returns x.
C1_RoundTrip ==
    (pc = "roundtrip" /\ ~Has(data, 2)) =>
        (res.raised = "none" /\ res.value = data)

\* C1's case: a run longer than the cap, after literals, has made the round trip.
C1_Witness ==
    /\ pc = "roundtrip"
    /\ ~Has(data, 2)
    /\ Len(data) > RunCap + 1
    /\ data[1] # data[2]
    /\ res.value = data

\* The alpha bytes of an RGBA buffer: the bytes at the offsets 3, 7, 11, ...
AlphaAt(x, k) == x[4 * (k - 1) + 3 + 1]

\* Every pixel of x has the colour bytes 255, 255, 255.
AllWhite(x) ==
    \A p \in 0..((Len(x) \div 4) - 1) : \A c \in 1..3 : x[4 * p + c] = 255

\* C5: for an RGBA buffer x whose length is a multiple of 4, get_alpha_values(x)
\* is the bytes at offsets 3, 7, 11, ... of x, and expanding it again gives x
\* exactly when every pixel's colour bytes are 255, 255, 255.
C5_AlphaProjection ==
    /\ (pc = "alpha" /\ Len(data) % 4 = 0) =>
          /\ 4 * Len(res.value) = Len(data)
          /\ \A k \in 1..Len(res.value) : res.value[k] = AlphaAt(data, k)
    /\ (pc = "expanded" /\ Len(data) % 4 = 0) =>
          ((res.value = data) <=> AllWhite(data))

\* C5's case: a two-pixel buffer with a coloured pixel was projected and expanded,
\* and the expansion differs from it.
C5_Witness ==
    /\ pc = "expanded"
    /\ Len(data) = 8
    /\ ~AllWhite(data)
    /\ arg = <<data[4], data[8]>>
    /\ res.value # data

\* C6: fix_data_for_rle(d) returns a buffer of d's length holding 1 wherever d
\* holds 2 and d's byte everywhere else, and leaves d as it was.
C6_FixData ==
    pc = "fixed" =>
        /\ res.raised = "none"
        /\ Len(res.value) = Len(arg)
        /\ \A k \in 1..Len(arg) : res.value[k] = IF arg[k] = 2 THEN 1 ELSE arg[k]
        /\ ~Has(res.value, 2)
        /\ data = arg

\* C6's case: a buffer with two escape values, not adjacent, went through.
C6_Witness ==
    /\ pc = "fixed"
    /\ \E j, k \in 1..Len(arg) : j + 1 < k /\ arg[j] = 2 /\ arg[k] = 2
    /\ ~Has(res.value, 2)

\* The greedy run at position i of x: the longest stretch of x[i] from i on, capped
\* at 255 bytes and at the end of x.
GreedyRun(x, i) ==
    LET lens == {n \in 1..Min(255, Len(x) - i + 1) : \A k \in 0..(n - 1) : x[i + k] = x[i]}
    IN  CHOOSE n \in lens : \A m \in lens : m <= n

\* A run of n bytes v as the claim encodes it.
RunCode(n, v) == IF n >= 3 THEN <<2, n, v>> ELSE Rep(v, n)

RECURSIVE GreedyCode(_, _)
GreedyCode(x, i) ==
    IF i > Len(x) THEN <<>>
    ELSE RunCode(GreedyRun(x, i), x[i]) \o GreedyCode(x, i + GreedyRun(x, i))

\* Every escape of stream c, read left to right, carries a length in 3..255.
RECURSIVE RunLengthsInRange(_, _)
RunLengthsInRange(c, i) ==
    IF i > Len(c) THEN TRUE
    ELSE IF c[i] = 2
         THEN i + 2 <= Len(c) /\ c[i + 1] \in 3..255 /\ RunLengthsInRange(c, i + 3)
         ELSE RunLengthsInRange(c, i + 1)

\* C7: on an input with no byte 2, rle_compress emits, run by greedy run (capped at
\* 255 and at the end of the buffer), [2, runLength, value] with runLength in 3..255
\* for a run of 3 or more and the bytes themselves for a run of 1 or 2;
\* [5,5] gives [5,5] and [5,5,5] gives [2,3,5].
C7_GreedyRuns ==
    (pc = "compressed" /\ ~Has(data, 2)) =>
        /\ res.value = GreedyCode(data, 1)
        /\ RunLengthsInRange(res.value, 1)
        /\ (data = <<5, 5>> => res.value = <<5, 5>>)
        /\ (data = <<5, 5, 5>> => res.value = <<2, 3, 5>>)

\* C7's case: the compressor met a run past the cap, and split it.
C7_Witness ==
    /\ pc = "compressed"
    /\ data = Rep(1, RunCap + 2)
    /\ res.value = <<2, 255, 1, 1, 1>>

\* The positions at which a left-to-right reading of stream c starts a token.
RECURSIVE TokenStarts(_, _)
TokenStarts(c, i) ==
    IF i > Len(c) THEN {}
    ELSE {i} \cup TokenStarts(c, IF c[i] = 2 THEN i + 3 ELSE i + 1)

\* Stream c holds an escape byte followed by fewer than two further bytes.
TruncatedEscape(c) ==
    \E i \in TokenStarts(c, 1) : c[i] = 2 /\ Len(c) - i < 2

\* C9: given a stream in which an escape byte 2 is followed by fewer than two
\* further bytes, rle_decompress ends in an error (the out-of-range index is
\* refused, not read) and returns no buffer.
C9_TruncatedEscape ==
    (pc = "decoded" /\ TruncatedEscape(arg)) =>
        (res.raised = "IndexError" /\ res.value = <<>>)

\* C9's case: a literal, a whole run, then an escape with one byte after it.
C9_Witness ==
    /\ pc = "decoded"
    /\ Len(arg) = 4
    /\ arg[1] # 2
    /\ arg[3] = 2
    /\ TruncatedEscape(arg)
    /\ res.raised = "IndexError"

\* --------------------------------------------------- runs of main()

\* Widest image of the assets (all are one pixel high).
MaxWidth == 3
\* Longest raw file of the assets.
MaxRaw == 4

DotPng == <<".", "p", "n", "g">>

\* The pixels of the assets: white at alpha 0, and the escape value four times.
AssetPixels == {<<255, 255, 255, 0>>, <<2, 2, 2, 2>>}

\* What read_image returns for an RGBA file: img.tobytes() is four bytes a pixel.
RGBAImages ==
    {[image_data |-> Flatten(ps), width |-> Len(ps), height |-> 1] :
        ps \in SeqsUpTo(AssetPixels, MaxWidth) \ {<<>>}}

\* What read_image returns for an RGB file: three bytes a pixel.
RGBImages ==
    {[image_data |-> Rep(255, 3 * w), width |-> w, height |-> 1] : w \in 1..MaxWidth}

\* The bytes of a file of n bytes (the PNG signature, repeated).
RawBytes(n) == [k \in 1..n |-> <<137, 80, 78, 71>>[((k - 1) % 4) + 1]]

NoImage == [image_data |-> <<>>, width |-> 0, height |-> 0]

\* The .png files an assets directory may hold under a name: readable ones, and
\* one that Image.open refuses.
PngFiles(name) ==
    {[file_name |-> name, readable |-> TRUE, image |-> img, raw_png_data |-> RawBytes(n)] :
        img \in RGBAImages \cup RGBImages, n \in 2..MaxRaw}
    \cup {[file_name |-> name, readable |-> FALSE, image |-> NoImage,
           raw_png_data |-> RawBytes(2)]}

OtherFile(name) ==
    [file_name |-> name, readable |-> FALSE, image |-> NoImage, raw_png_data |-> <<>>]

\* The directories main() is run on: empty, without images, and with two images
\* around a file of another kind.
Directories ==
    {<<>>, <<OtherFile(NOTES_TXT)>>}
    \cup {<<a, OtherFile(NOTES_TXT), b>> : a \in PngFiles(A_PNG), b \in PngFiles(B_PNG)}

Init ==
    /\ pc = "start"
    /\ data = <<>>
    /\ arg = <<>>
    /\ res = Returned(<<>>)
    /\ ALPHA_ONLY \in BOOLEAN
    /\ assets_exist \in BOOLEAN
    /\ assets \in (IF assets_exist THEN Directories ELSE {<<>>})
    /\ todo = <<>>
    /\ image_data_map = <<>>
    /\ original_size = 0
    /\ bytes_saved = 0
    /\ header = <<>>
    /\ written = <<>>
    /\ extracted = Returned(<<>>)

\* Lines 232-247: main() up to its loop.  Without the directory it returns; the
\* resized copies (lines 244-245) are the entries of assets.
Start ==
    /\ pc = "start"
    /\ IF assets_exist
       THEN pc' = "loop" /\ todo' = assets
       ELSE pc' = "returned" /\ todo' = todo
    /\ UNCHANGED <<codecVars, ALPHA_ONLY, assets_exist, assets, image_data_map,
                   original_size, bytes_saved, header, written, extracted>>

\* Lines 248-278: one turn of the packaging loop.
LoopStep ==
    /\ pc = "loop"
    /\ todo # <<>>
    /\ LET entry == Head(todo)
           p == package_image(entry.image, entry.raw_png_data, ALPHA_ONLY)
       IN  \/ \* line 249: not a .png, the entry is passed over
              /\ ~endswith(entry.file_name, DotPng)
              /\ todo' = Tail(todo)
              /\ UNCHANGED <<pc, res, image_data_map, original_size, bytes_saved>>
           \/ \* line 251: read_image raises, and nothing in main() catches it
              /\ endswith(entry.file_name, DotPng)
              /\ ~entry.readable
              /\ pc' = "raised"
              /\ res' = Raised("UnidentifiedImageError")
              /\ UNCHANGED <<todo, image_data_map, original_size, bytes_saved>>
           \/ \* lines 251-278: the image is packaged
              /\ endswith(entry.file_name, DotPng)
              /\ entry.readable
              /\ image_data_map' = dict_set(image_data_map, map_item(entry.file_name, p))
              /\ original_size' = original_size + p.orig_size
              /\ bytes_saved' = bytes_saved + p.saved
              /\ todo' = Tail(todo)
              /\ UNCHANGED <<pc, res>>
    /\ UNCHANGED <<data, arg, ALPHA_ONLY, assets_exist, assets, header, written, extracted>>

\* Lines 280-290: the header is generated and written; the percentage printed at
\* line 287 divides by original_size.
WriteHeader ==
    /\ pc = "loop"
    /\ todo = <<>>
    /\ header' = generate_header(image_data_map)
    /\ IF original_size = 0
       THEN pc' = "raised" /\ res' = Raised("ZeroDivisionError")
       ELSE pc' = "reconstruct" /\ res' = res
    /\ UNCHANGED <<data, arg, ALPHA_ONLY, assets_exist, assets, todo, image_data_map,
                   original_size, bytes_saved, written, extracted>>

\* Lines 292-314: one turn of the reconstruction loop, on the record after those
\* already written; after the last record main() returns.
ReconstructStep ==
    /\ pc = "reconstruct"
    /\ IF Len(written) = Len(image_data_map)
       THEN pc' = "done" /\ UNCHANGED <<res, written>>
       ELSE LET rec == image_data_map[Len(written) + 1]
                r == reconstruct(rec, ALPHA_ONLY)
            IN  IF rec.is_raw_png
                THEN /\ written' = Append(written, [file_name |-> rec.file_name,
                                                    image_data |-> rec.image_data])
                     /\ UNCHANGED <<pc, res>>
                ELSE IF r.raised # "none"
                THEN pc' = "raised" /\ res' = r /\ written' = written
                ELSE /\ written' = Append(written, [file_name |-> rec.file_name,
                                                    image_data |-> r.value])
                     /\ UNCHANGED <<pc, res>>
    /\ UNCHANGED <<data, arg, ALPHA_ONLY, assets_exist, assets, todo, image_data_map,
                   original_size, bytes_saved, header, extracted>>

Next ==
    \/ Start
    \/ LoopStep
    \/ WriteHeader
    \/ ReconstructStep

Spec == Init /\ [][Next]_vars

\* ---------------------------------------------------- claims on main()

\* The entry of the assets directory a record was packaged from.
AssetOf(rec) ==
    CHOOSE e \in {assets[j] : j \in 1..Len(assets)} : e.file_name = rec.file_name

\* The buffer the packaging compresses for an entry: its alpha bytes in alpha-only
\* mode, its decoded bytes otherwise, every 2 replaced by 1.
ResolvedBuffer(e) ==
    LET working == IF ALPHA_ONLY
                   THEN [k \in 1..(Len(e.image.image_data) \div 4) |-> AlphaAt(e.image.image_data, k)]
                   ELSE e.image.image_data
    IN  [k \in 1..Len(working) |-> IF working[k] = 2 THEN 1 ELSE working[k]]

\* C3: a record is the raw encoded file, with isRawEncoding true, exactly when the
\* raw file is shorter than the compressed resolved buffer; otherwise, also when
\* the two lengths are equal, it is the compressed buffer with isRawEncoding false.
C3_FallbackChoice ==
    \A k \in 1..Len(image_data_map) :
        LET rec == image_data_map[k]
            raw == AssetOf(rec).raw_png_data
            compressed == rle_compress(ResolvedBuffer(AssetOf(rec)))
        IN  IF Len(raw) < Len(compressed)
            THEN rec.is_raw_png /\ rec.image_data = raw
            ELSE ~rec.is_raw_png /\ rec.image_data = compressed

\* C3's case: one record kept the compressed buffer on a tie, though the raw file is
\* shorter than the decoded buffer; another took the raw file.
C3_Witness ==
    /\ Len(image_data_map) = 2
    /\ ~image_data_map[1].is_raw_png
    /\ Len(AssetOf(image_data_map[1]).raw_png_data) = Len(image_data_map[1].image_data)
    /\ Len(AssetOf(image_data_map[1]).raw_png_data)
         < Len(AssetOf(image_data_map[1]).image.image_data)
    /\ image_data_map[2].is_raw_png
    /\ image_data_map[2].image_data = AssetOf(image_data_map[2]).raw_png_data

\* C4: in every record of the table, in either mode, isAlphaOnly and isRawEncoding
\* are never both true.
C4_FlagsExclusive ==
    \A k \in 1..Len(image_data_map) :
        ~(image_data_map[k].alpha_only /\ image_data_map[k].is_raw_png)

\* C4's case: in alpha-only mode one record took the raw file and another did not.
C4_Witness ==
    /\ ALPHA_ONLY
    /\ Len(image_data_map) = 2
    /\ image_data_map[1].is_raw_png /\ ~image_data_map[1].alpha_only
    /\ ~image_data_map[2].is_raw_png /\ image_data_map[2].alpha_only

IsPng(e) == endswith(e.file_name, DotPng)

\* The names of the images of the directory that can be read, in its order.
RECURSIVE ReadableNames(_)
ReadableNames(dir) ==
    IF dir = <<>> THEN <<>>
    ELSE (IF IsPng(Head(dir)) /\ Head(dir).readable THEN <<Head(dir).file_name>> ELSE <<>>)
         \o ReadableNames(Tail(dir))

\* C8: when one image cannot be read or decoded, it is left out of the table, the
\* loop packages the others, and the table of the others is still produced.
C8_BatchContinues ==
    (/\ pc \in {"done", "raised", "returned"}
     /\ \E j \in 1..Len(assets) : IsPng(assets[j]) /\ ~assets[j].readable)
    => /\ header # <<>>
       /\ [k \in 1..Len(image_data_map) |-> image_data_map[k].file_name]
            = ReadableNames(assets)

\* The record was packaged from an RGBA buffer of width * height * 4 bytes.
FromRGBA(rec) ==
    Len(AssetOf(rec).image.image_data) = rec.width * rec.height * 4

\* C10: for every record with isRawEncoding false packaged from an RGBA buffer of
\* width*height*4 bytes, in either mode, decompressing the payload gives
\* decompressedSize bytes and the reconstruction (decompress, then the alpha
\* expansion in alpha-only mode) gives width*height*4 bytes: the size check of the
\* reconstruction loop does not fail on it.
C10_Reconstruction ==
    \A k \in 1..Len(image_data_map) :
        LET rec == image_data_map[k]
            d == rle_decompress(rec.image_data)
            full == IF ALPHA_ONLY THEN alpha_vals_to_image_data(d.value) ELSE d.value
        IN  (~rec.is_raw_png /\ FromRGBA(rec)) =>
                /\ d.raised = "none"
                /\ Len(d.value) = rec.decompressed_size
                /\ Len(full) = rec.width * rec.height * 4
                /\ k <= Len(written) =>
                      Len(written[k].image_data) = rec.width * rec.height * 4
                /\ ~(pc = "raised" /\ res.raised = "ValueError" /\ k = Len(written) + 1)

\* C10's case: in alpha-only mode a three-pixel image was packaged as one run and
\* written back as twelve bytes, after an image packaged as literals.
C10_Witness ==
    /\ pc = "done"
    /\ ALPHA_ONLY
    /\ Len(written) = 2
    /\ ~image_data_map[1].is_raw_png
    /\ image_data_map[1].decompressed_size = 2
    /\ ~image_data_map[2].is_raw_png
    /\ image_data_map[2].image_data = <<2, 3, 1>>
    /\ image_data_map[2].decompressed_size = 3
    /\ Len(written[2].image_data) = 12

\* ------------------------------------------- runs of the header functions

\* Most records of a table written and read back.
MaxRecords == 2

\* The records of the tables written and read back: one-digit and longer numbers,
\* payloads of two and three bytes.
TableRecords ==
    {[file_name |-> n, image_data |-> p, width |-> 2, height |-> h,
      decompressed_size |-> 3, is_raw_png |-> f[1], alpha_only |-> f[2]] :
        n \in {A_PNG, B_PNG},
        p \in {<<0, 10>>, <<2, 3, 255>>},
        h \in {1, 64},
        f \in {<<FALSE, FALSE>>, <<FALSE, TRUE>>, <<TRUE, FALSE>>}}

Tables ==
    {t \in SeqsUpTo(TableRecords, MaxRecords) :
        \A j, k \in 1..Len(t) : j # k => t[j].file_name # t[k].file_name}

InitTable ==
    /\ pc = "table"
    /\ image_data_map \in Tables
    /\ data = <<>>
    /\ arg = <<>>
    /\ res = Returned(<<>>)
    /\ ALPHA_ONLY = TRUE
    /\ assets_exist = FALSE
    /\ assets = <<>>
    /\ todo = <<>>
    /\ original_size = 0
    /\ bytes_saved = 0
    /\ header = <<>>
    /\ written = <<>>
    /\ extracted = Returned(<<>>)

\* header = generate_header(image_data_map)
CallGenerateHeader ==
    /\ pc = "table"
    /\ header' = generate_header(image_data_map)
    /\ pc' = "serialized"
    /\ UNCHANGED <<codecVars, ALPHA_ONLY, assets_exist, assets, todo, image_data_map,
                   original_size, bytes_saved, written, extracted>>

\* extract_image_data(header)
CallExtract ==
    /\ pc = "serialized"
    /\ extracted' = extract_image_data(header)
    /\ pc' = "extracted"
    /\ UNCHANGED <<codecVars, ALPHA_ONLY, assets_exist, assets, todo, image_data_map,
                   original_size, bytes_saved, written, header>>

NextTable ==
    \/ CallGenerateHeader
    \/ CallExtract

SpecTable == InitTable /\ [][NextTable]_vars

\* C2: for every table of N >= 0 records whose names hold no quote or brace,
\* extract_image_data(generate_header(table)) has the same names in the same order
\* and, for each, the same payload, width, height, decompressedSize, isRawEncoding
\* and isAlphaOnly.
C2_HeaderRoundTrip ==
    pc = "extracted" =>
        /\ extracted.raised = "none"
        /\ Len(extracted.value) = Len(image_data_map)
        /\ \A k \in 1..Len(image_data_map) :
              /\ extracted.value[k].file_name = image_data_map[k].file_name
              /\ extracted.value[k].image_data = image_data_map[k].image_data
              /\ extracted.value[k].width = image_data_map[k].width
              /\ extracted.value[k].height = image_data_map[k].height
              /\ extracted.value[k].original_size = image_data_map[k].decompressed_size
              /\ extracted.value[k].is_raw_png = image_data_map[k].is_raw_png
              /\ extracted.value[k].alpha_only = image_data_map[k].alpha_only

====
